---- MODULE Spec2Model ----
(***************************************************************************)
(* The simulation core of grappling_hook (src/src/game_state.rs) and the   *)
(* catch-up loop of src/src/main.rs.                                       *)
(*                                                                         *)
(* Numbers.  The program computes in f64.  Here a number is a fixed-point  *)
(* integer, the real value times SCALE, or one of three values standing    *)
(* for the non-finite f64 values: PosInf, NegInf (division of a non-zero   *)
(* number by zero) and NaN (0/0, inf-inf, inf*0).  The F-operators below   *)
(* follow IEEE-754 on these; rounding of finite results is not modelled    *)
(* (a quotient off the grid is truncated towards zero).  Frictions are     *)
(* counted in units of 1/FricOne and masses and dt denominators are plain  *)
(* integers, so two scaled numbers are never multiplied.                   *)
(***************************************************************************)
EXTENDS Integers, Sequences, FiniteSets, TLC

SCALE == 72 * 100
FricOne == 1 + 1

PosInf == 10^9
NegInf == -(10^9)
NaN == 2 * 10^9

IsNaN(a) == a = NaN
IsInf(a) == a = PosInf \/ a = NegInf
IsFinite(a) == ~IsNaN(a) /\ ~IsInf(a)

FNeg(a) == IF IsNaN(a) THEN NaN ELSE -a

FAdd(a, b) ==
    IF IsNaN(a) \/ IsNaN(b) THEN NaN
    ELSE IF IsInf(a) THEN (IF IsInf(b) /\ b # a THEN NaN ELSE a)
    ELSE IF IsInf(b) THEN b
    ELSE a + b

FSub(a, b) == FAdd(a, FNeg(b))

\* a * k for a plain integer k
FMulK(a, k) ==
    IF IsNaN(a) THEN NaN
    ELSE IF IsInf(a) THEN (IF k = 0 THEN NaN ELSE IF k > 0 THEN a ELSE -a)
    ELSE a * k

\* a / k for a plain integer k >= 0; k = 0 is f64 division by +0.0
FDivK(a, k) ==
    IF IsNaN(a) THEN NaN
    ELSE IF k = 0 THEN (IF a = 0 THEN NaN ELSE IF a > 0 THEN PosInf ELSE NegInf)
    ELSE IF IsInf(a) THEN a
    ELSE IF a >= 0 THEN a \div k ELSE -((-a) \div k)

FLt(a, b) == ~IsNaN(a) /\ ~IsNaN(b) /\ a < b
FGt(a, b) == FLt(b, a)
FEq(a, b) == ~IsNaN(a) /\ ~IsNaN(b) /\ a = b
FNe(a, b) == ~FEq(a, b)
FAbs(a) == IF IsNaN(a) THEN NaN ELSE IF a < 0 THEN -a ELSE a
\* f64::signum as a plain integer; 0 stands for +0.0.  Never applied to NaN
\* with a non-NaN result needed: the caller multiplies by it with FMulSign.
FMulSign(d, t) ==
    IF IsNaN(t) \/ IsNaN(d) THEN NaN ELSE IF t < 0 THEN FNeg(d) ELSE d

vec2(x, y) == [x |-> x, y |-> y]
VAdd(a, b) == vec2(FAdd(a.x, b.x), FAdd(a.y, b.y))
VSub(a, b) == vec2(FSub(a.x, b.x), FSub(a.y, b.y))
VNeg(a) == vec2(FNeg(a.x), FNeg(a.y))
VMulK(a, k) == vec2(FMulK(a.x, k), FMulK(a.y, k))
VDivK(a, k) == vec2(FDivK(a.x, k), FDivK(a.y, k))

\* F(e) with e evaluated once
Bind(e, F(_)) == CHOOSE r \in { F(x) : x \in {e} } : TRUE

None == << >>
Some(v) == << v >>
IsSome(o) == Len(o) = 1

(***************************************************************************)
(* check_collision                                                         *)
(***************************************************************************)
\* the signed candidate penetration on one axis; the centres are compared
\* doubled (2*pos + size), which orders them as pos + size/2 does
axis_offset(p1, s1, p2, s2) ==
    LET center1 == FAdd(FMulK(p1, 2), s1)
        center2 == FAdd(FMulK(p2, 2), s2)
    IN  IF FGt(center1, center2) THEN FSub(FAdd(p2, s2), p1)
        ELSE IF FLt(center1, center2) THEN FSub(p2, FAdd(p1, s1))
        ELSE 0

overlaps_mut(pos1, size1, pos2, size2) ==
    /\ ~FGt(pos1.x, FAdd(pos2.x, size2.x))
    /\ ~FLt(FAdd(pos1.x, size1.x), pos2.x)
    /\ ~FGt(pos1.y, FAdd(pos2.y, size2.y))
    /\ ~FLt(FAdd(pos1.y, size1.y), pos2.y)

\* the test of lines 416-419
overlaps(pos1, size1, pos2, size2) ==
    /\ FLt(pos1.x, FAdd(pos2.x, size2.x))
    /\ FGt(FAdd(pos1.x, size1.x), pos2.x)
    /\ FLt(pos1.y, FAdd(pos2.y, size2.y))
    /\ FGt(FAdd(pos1.y, size1.y), pos2.y)

zero_x_mut(offset_x, offset_y) ==
    FEq(offset_x, 0) \/ (FLt(FAbs(offset_x), FAbs(offset_y)) /\ FNe(offset_y, 0))

\* the test of line 437: TRUE when offset_x is the component set to 0
zero_x(offset_x, offset_y) ==
    FEq(offset_x, 0) \/ (FGt(FAbs(offset_x), FAbs(offset_y)) /\ FNe(offset_y, 0))

check_collision(pos1, size1, pos2, size2) ==
    IF overlaps(pos1, size1, pos2, size2)
    THEN LET offset_x == axis_offset(pos1.x, size1.x, pos2.x, size2.x)
             offset_y == axis_offset(pos1.y, size1.y, pos2.y, size2.y)
         IN  IF zero_x(offset_x, offset_y)
             THEN Some(vec2(0, offset_y))
             ELSE Some(vec2(offset_x, 0))
    ELSE None

(***************************************************************************)
(* Direction, Object                                                       *)
(***************************************************************************)
Directions == {"Left", "Right", "Up", "Down"}
ElementStates == {"Pressed", "Released"}

invert(d) ==
    CASE d = "Left" -> "Right"
      [] d = "Right" -> "Left"
      [] d = "Up" -> "Down"
      [] d = "Down" -> "Up"

from_vector(vec) ==
    IF FGt(FAbs(vec.x), FAbs(vec.y))
    THEN (IF FGt(vec.x, 0) THEN "Right" ELSE "Left")
    ELSE IF FGt(vec.y, 0) THEN "Up" ELSE "Down"

\* an Object; velocity and mass are read only of a Movable, fake_velocity
\* only of a Treadmill
Object(ty, velocity, mass, fake_velocity, pos, size, surface_friction, touching) ==
    [ty |-> ty, velocity |-> velocity, mass |-> mass,
     fake_velocity |-> fake_velocity, pos |-> pos, size |-> size,
     surface_friction |-> surface_friction, touching |-> touching]

NoTouching == [k \in {} |-> "Down"]
insert(m, k, v) == [i \in (DOMAIN m) \cup {k} |-> IF i = k THEN v ELSE m[i]]

reset_velocity_components(o, x, y) ==
    IF o.ty = "Movable"
    THEN [o EXCEPT !.velocity = vec2(IF x THEN 0 ELSE @.x, IF y THEN 0 ELSE @.y)]
    ELSE o

apply_push(o, push) ==
    IF o.ty = "Movable" THEN [o EXCEPT !.velocity = VAdd(@, push)] ELSE o

get_velocity(o) ==
    CASE o.ty = "Static" -> vec2(0, 0)
      [] o.ty = "Movable" -> o.velocity
      [] o.ty = "Treadmill" -> o.fake_velocity

\* Some(mass) of a Movable, None of a Static or Treadmill
can_be_pushed(o) == IF o.ty = "Movable" THEN Some(o.mass) ELSE None

(***************************************************************************)
(* PlayerController                                                        *)
(***************************************************************************)
GRAVITY == 15
JUMP == 10
Keyboard(button, state) == [button |-> button, state |-> state]

\* the events drained in arrival order: the key states after them, and
\* whether one of them was an Up press
RECURSIVE drain(_, _, _)
drain(events, key_states, do_jump) ==
    IF events = << >> THEN [key_states |-> key_states, do_jump |-> do_jump]
    ELSE LET e == Head(events)
         IN  drain(Tail(events), insert(key_states, e.button, e.state),
                   do_jump \/ (e.button = "Up" /\ e.state = "Pressed"))

\* 1 / surface_friction as a plain integer (frictions are 1/FricOne and 1)
contribution(friction) == FricOne \div friction

\* the closure of lines 49-64 over the keys in iteration order `order`
RECURSIVE touch_velocity(_, _, _, _)
touch_velocity(order, objs, sum, weights) ==
    IF order = << >> THEN VDivK(sum, weights)
    ELSE LET other == objs[Head(order)]
         IN  IF other.surface_friction = 0
             THEN get_velocity(other)
             ELSE touch_velocity(Tail(order), objs,
                      VAdd(sum, VMulK(get_velocity(other),
                                      contribution(other.surface_friction))),
                      weights + contribution(other.surface_friction))

average_touch_velocity_mut(c, touching, order, objs) ==
    IF DOMAIN touching # {}
    THEN touch_velocity(SelectSeq(order, LAMBDA i : objs[i].surface_friction # 0),
                        objs, vec2(0, 0), 0)
    ELSE c.last_touch_velocity

average_touch_velocity(c, touching, order, objs) ==
    IF DOMAIN touching # {}
    THEN touch_velocity(order, objs, vec2(0, 0), 0)
    ELSE c.last_touch_velocity

key_state(key_states, d) ==
    IF d \in DOMAIN key_states THEN key_states[d] ELSE "Released"

\* velocity.x after the horizontal control of lines 70-97
horizontal(c, key_states, vx, avg, dt) ==
    LET left_state == key_state(key_states, "Left")
        right_state == key_state(key_states, "Right")
        step == FDivK(c.acceleration_speed, dt)
    IN  IF left_state # right_state
        THEN IF left_state = "Pressed"
             THEN LET v == FAdd(vx, FNeg(step))
                      lo == FSub(avg.x, c.top_speed)
                  IN  IF FLt(v, lo) THEN lo ELSE v
             ELSE LET v == FAdd(vx, step)
                      hi == FAdd(avg.x, c.top_speed)
                  IN  IF FGt(v, hi) THEN hi ELSE v
        ELSE LET target == FSub(avg.x, vx)
                 difference == IF FGt(step, FAbs(target)) THEN FAbs(target) ELSE step
             IN  FAdd(vx, FMulSign(difference, target))

jump_offset_mut(do_jump, touching, touching_sides) ==
    IF do_jump
    THEN vec2(IF "Left" \in touching_sides THEN JUMP * SCALE
              ELSE IF "Right" \in touching_sides THEN -(JUMP * SCALE)
              ELSE 0,
              JUMP * SCALE)
    ELSE vec2(0, 0)

\* the velocity the jump of lines 98-106 adds
jump_offset(do_jump, touching, touching_sides) ==
    IF do_jump /\ DOMAIN touching # {}
    THEN vec2(IF "Left" \in touching_sides THEN JUMP * SCALE
              ELSE IF "Right" \in touching_sides THEN -(JUMP * SCALE)
              ELSE 0,
              JUMP * SCALE)
    ELSE vec2(0, 0)

\* the velocity.y lines 107-109 add
down_push(touching_sides, dt) ==
    IF "Down" \in touching_sides THEN FDivK(GRAVITY * SCALE, dt) ELSE 0

\* a key of the controlled object's touching map that objects[index] or
\* its borrow() panics on: an absent handle, or the controlled object
\* itself (already mutably borrowed)
controller_panics(c, objs) ==
    /\ c.controlled_object \in DOMAIN objs
    /\ objs[c.controlled_object].ty = "Movable"
    /\ \E index \in DOMAIN objs[c.controlled_object].touching :
           index \notin DOMAIN objs \/ index = c.controlled_object

\* lines 36-110 for a controlled Movable `object`, the events drained to d
control(c, object, d, objs, dt, order) ==
    LET touching == object.touching
        touching_sides == {touching[k] : k \in DOMAIN touching}
    IN  Bind(average_touch_velocity(c, touching, order, objs), LAMBDA avg :
        Bind(VAdd(vec2(horizontal(c, d.key_states, object.velocity.x, avg, dt),
                       object.velocity.y),
                  jump_offset(d.do_jump, touching, touching_sides)), LAMBDA v :
            [last_touch_velocity |-> avg,
             velocity |-> vec2(v.x, FAdd(v.y, down_push(touching_sides, dt)))]))

PlayerController_update_mut(c, objs, dt, order) ==
    Bind(drain(c.pending_events, c.key_states,
               key_state(c.key_states, "Up") = "Pressed"), LAMBDA d :
        IF c.controlled_object \in DOMAIN objs
           /\ objs[c.controlled_object].ty = "Movable"
        THEN Bind(control(c, objs[c.controlled_object], d, objs, dt, order), LAMBDA r :
               [controller |-> [c EXCEPT !.pending_events = << >>,
                                         !.key_states = d.key_states,
                                         !.last_touch_velocity = r.last_touch_velocity],
                objects |-> [objs EXCEPT ![c.controlled_object].velocity = r.velocity]])
        ELSE [controller |-> [c EXCEPT !.pending_events = << >>,
                                       !.key_states = d.key_states],
              objects |-> objs])

\* PlayerController::update: the controller and the objects after it
PlayerController_update(c, objs, dt, order) ==
    Bind(drain(c.pending_events, c.key_states, FALSE), LAMBDA d :
        IF c.controlled_object \in DOMAIN objs
           /\ objs[c.controlled_object].ty = "Movable"
        THEN Bind(control(c, objs[c.controlled_object], d, objs, dt, order), LAMBDA r :
               [controller |-> [c EXCEPT !.pending_events = << >>,
                                         !.key_states = d.key_states,
                                         !.last_touch_velocity = r.last_touch_velocity],
                objects |-> [objs EXCEPT ![c.controlled_object].velocity = r.velocity]])
        ELSE [controller |-> [c EXCEPT !.pending_events = << >>,
                                       !.key_states = d.key_states],
              objects |-> objs])

(***************************************************************************)
(* GameState                                                               *)
(***************************************************************************)
CHECK_SIZE == SCALE \div 100

\* lines 296-303 for one object
integrate_mut(o, dt) ==
    IF o.ty = "Movable"
    THEN [o EXCEPT !.velocity = VSub(o.velocity, vec2(0, FDivK(GRAVITY * SCALE, dt))),
                   !.pos = VAdd(o.pos, VDivK(o.velocity, dt))]
    ELSE o

integrate(o, dt) ==
    IF o.ty = "Movable"
    THEN LET velocity == VSub(o.velocity, vec2(0, FDivK(GRAVITY * SCALE, dt)))
         IN  [o EXCEPT !.velocity = velocity,
                       !.pos = VAdd(o.pos, VDivK(velocity, dt))]
    ELSE o

\* the test of lines 396-399: object against other's box grown by CHECK_SIZE
still_touching(object, other) ==
    check_collision(object.pos, object.size,
                    vec2(FSub(other.pos.x, CHECK_SIZE), FSub(other.pos.y, CHECK_SIZE)),
                    vec2(FAdd(other.size.x, 2 * CHECK_SIZE),
                         FAdd(other.size.y, 2 * CHECK_SIZE)))

refreshed_touching_mut(objs, index) ==
    LET object == objs[index]
        kept == {other_index \in DOMAIN object.touching :
                    /\ index # other_index
                    /\ other_index \in DOMAIN objs
                    /\ IsSome(still_touching(object, objs[other_index]))}
    IN  [other_index \in kept |-> invert(object.touching[other_index])]

\* the touching map check_whats_still_touching leaves to objs[index]
refreshed_touching(objs, index) ==
    LET object == objs[index]
        kept == {other_index \in DOMAIN object.touching :
                    /\ index # other_index
                    /\ other_index \in DOMAIN objs
                    /\ IsSome(still_touching(object, objs[other_index]))}
    IN  [other_index \in kept |->
            invert(from_vector(still_touching(object, objs[other_index])[1]))]

\* each object reads only its own old map and the others' boxes, so the
\* loop over the objects is one simultaneous assignment
check_whats_still_touching(objs) ==
    [index \in DOMAIN objs |->
        [objs[index] EXCEPT !.touching = refreshed_touching(objs, index)]]

\* offset * mass / (mass1 + mass2)
share(v, mass, total_mass) == VDivK(VMulK(v, mass), total_mass)

velocity_offset_mut(object1, object2, offset) ==
    LET total == object1.surface_friction * object2.surface_friction
        unit == FricOne * FricOne
        v1 == get_velocity(object1)
        v2 == get_velocity(object2)
    IN  IF FNe(offset.x, 0)
        THEN vec2(FDivK(FMulK(FSub(v1.x, v2.x), unit), total), 0)
        ELSE IF FNe(offset.y, 0)
        THEN vec2(0, FDivK(FMulK(FSub(v1.y, v2.y), unit), total))
        ELSE vec2(0, 0)

\* lines 346-358
velocity_offset(object1, object2, offset) ==
    LET total == object1.surface_friction * object2.surface_friction
        unit == FricOne * FricOne
        v1 == get_velocity(object1)
        v2 == get_velocity(object2)
    IN  IF FEq(offset.x, 0)
        THEN vec2(FDivK(FMulK(FSub(v1.x, v2.x), unit), total), 0)
        ELSE IF FEq(offset.y, 0)
        THEN vec2(0, FDivK(FMulK(FSub(v1.y, v2.y), unit), total))
        ELSE vec2(0, 0)

\* lines 359-377: the pair after the position correction and the push
respond_static_mut(object1, object2, offset, push) ==
    LET m1 == can_be_pushed(object1)
        m2 == can_be_pushed(object2)
    IN  IF IsSome(m1) /\ IsSome(m2)
        THEN LET offset1 == share(offset, m1[1], m1[1] + m2[1])
             IN  << apply_push([object1 EXCEPT !.pos = VAdd(@, offset1)],
                               share(VNeg(push), m1[1], m1[1] + m2[1])),
                    apply_push([object2 EXCEPT !.pos = VSub(@, VSub(offset, offset1))],
                               share(push, m2[1], m1[1] + m2[1])) >>
        ELSE IF IsSome(m1)
        THEN << apply_push([object1 EXCEPT !.pos = VAdd(@, offset)], VNeg(push)),
                object2 >>
        ELSE << [object1 EXCEPT !.pos = VAdd(@, offset)],
                apply_push(object2, push) >>

respond(object1, object2, offset, push) ==
    LET m1 == can_be_pushed(object1)
        m2 == can_be_pushed(object2)
    IN  IF IsSome(m1) /\ IsSome(m2)
        THEN LET offset1 == share(offset, m1[1], m1[1] + m2[1])
             IN  << apply_push([object1 EXCEPT !.pos = VAdd(@, offset1)],
                               share(VNeg(push), m1[1], m1[1] + m2[1])),
                    apply_push([object2 EXCEPT !.pos = VSub(@, VSub(offset, offset1))],
                               share(push, m2[1], m1[1] + m2[1])) >>
        ELSE IF IsSome(m1)
        THEN << apply_push([object1 EXCEPT !.pos = VAdd(@, offset)], VNeg(push)),
                object2 >>
        ELSE << object1,
                apply_push([object2 EXCEPT !.pos = VSub(@, offset)], push) >>

collide_mut(object1, object2, object1_index, object2_index, offset) ==
    Bind(from_vector(offset), LAMBDA direction :
    Bind(reset_velocity_components(
             [object1 EXCEPT !.touching = insert(@, object2_index, direction)],
             FNe(offset.x, 0), FNe(offset.y, 0)), LAMBDA r1 :
    Bind(reset_velocity_components(
             [object2 EXCEPT !.touching = insert(@, object1_index, direction)],
             FNe(offset.x, 0), FNe(offset.y, 0)), LAMBDA r2 :
        respond(r1, r2, offset, velocity_offset(r1, r2, offset)))))

\* lines 339-377 for a colliding pair: the pair after the response
collide(object1, object2, object1_index, object2_index, offset) ==
    Bind(from_vector(offset), LAMBDA direction :
    Bind(reset_velocity_components(
             [object1 EXCEPT !.touching = insert(@, object2_index, invert(direction))],
             FNe(offset.x, 0), FNe(offset.y, 0)), LAMBDA r1 :
    Bind(reset_velocity_components(
             [object2 EXCEPT !.touching = insert(@, object1_index, direction)],
             FNe(offset.x, 0), FNe(offset.y, 0)), LAMBDA r2 :
        respond(r1, r2, offset, velocity_offset(r1, r2, offset)))))

handle_collision(objs, object1_index, object2_index) ==
    IF object1_index = object2_index THEN objs
    ELSE IF object1_index \notin DOMAIN objs \/ object2_index \notin DOMAIN objs
    THEN objs
    ELSE IF IsSome(can_be_pushed(objs[object1_index]))
            \/ IsSome(can_be_pushed(objs[object2_index]))
    THEN Bind(check_collision(objs[object1_index].pos, objs[object1_index].size,
                              objs[object2_index].pos, objs[object2_index].size),
              LAMBDA hit :
                IF IsSome(hit)
                THEN Bind(collide(objs[object1_index], objs[object2_index],
                                  object1_index, object2_index, hit[1]),
                          LAMBDA pair : [objs EXCEPT ![object1_index] = pair[1],
                                                     ![object2_index] = pair[2]])
                ELSE objs)
    ELSE objs

Min(S) == CHOOSE a \in S : \A b \in S : a <= b

RECURSIVE ascending(_)
ascending(S) == IF S = {} THEN << >> ELSE << Min(S) >> \o ascending(S \ {Min(S)})

\* indices().tuple_combinations(): the pairs (i, j), i < j, in lexicographic order
RECURSIVE tuple_combinations(_)
tuple_combinations(S) ==
    IF S = {} THEN << >>
    ELSE LET i == Min(S)
             rest == ascending(S \ {i})
         IN  [k \in 1..Len(rest) |-> << i, rest[k] >>] \o tuple_combinations(S \ {i})

RECURSIVE resolve(_, _)
resolve(objs, pairs) ==
    IF pairs = << >> THEN objs
    ELSE Bind(handle_collision(objs, Head(pairs)[1], Head(pairs)[2]),
              LAMBDA next : resolve(next, Tail(pairs)))

collision_detection(objs) == resolve(objs, tuple_combinations(DOMAIN objs))

\* every controller's update in turn, controller k iterating its touching
\* keys in the order orders[k]
RECURSIVE controllers_update(_, _, _, _, _)
controllers_update(ctrls, objs, dt, orders, k) ==
    IF k > Len(ctrls) THEN [controllers |-> ctrls, objects |-> objs]
    ELSE Bind(PlayerController_update(ctrls[k], objs, dt, orders[k]), LAMBDA r :
             controllers_update([ctrls EXCEPT ![k] = r.controller], r.objects,
                                dt, orders, k + 1))

update_phases_mut(ctrls, objs, dt, orders) ==
    Bind(controllers_update(ctrls, objs, dt, orders, 1), LAMBDA c :
    Bind([index \in DOMAIN c.objects |-> integrate(c.objects[index], dt)], LAMBDA i :
    Bind(collision_detection(i), LAMBDA r :
    Bind(check_whats_still_touching(r), LAMBDA d :
        [dt |-> dt, orders |-> orders, before |-> objs, controllers_before |-> ctrls,
         controllers |-> c.controllers, controlled |-> c.objects,
         integrated |-> i, refreshed |-> r, after |-> d]))))

\* GameState::update: the objects after each of its four phases
update_phases(ctrls, objs, dt, orders) ==
    Bind(controllers_update(ctrls, objs, dt, orders, 1), LAMBDA c :
    Bind([index \in DOMAIN c.objects |-> integrate(c.objects[index], dt)], LAMBDA i :
    Bind(check_whats_still_touching(i), LAMBDA r :
    Bind(collision_detection(r), LAMBDA d :
        [dt |-> dt, orders |-> orders, before |-> objs, controllers_before |-> ctrls,
         controllers |-> c.controllers, controlled |-> c.objects,
         integrated |-> i, refreshed |-> r, after |-> d]))))

(***************************************************************************)
(* State                                                                   *)
(***************************************************************************)
VARIABLES
    objects,      \* GameState.objects: handle -> Object, the handles in use
    controllers,  \* GameState.controllers
    ticks,        \* the number of update calls made
    submitted,    \* the number of submit_player_event calls made
    last,         \* history: the phases of the latest update call
    panicked,     \* an update call panicked
    cc,           \* a call of check_collision: its arguments and result
    accum,        \* main's accum, in units of TICK_RATE / AccumParts
    last_state,   \* main's last_state: the snapshot kept for the renderer
    frame         \* history: the latest handler of main's event loop

vars == << objects, controllers, ticks, submitted, last, panicked, cc,
           accum, last_state, frame >>
main_vars == << accum, last_state, frame >>

MaxTicks == 2
MaxEvents == 1
MaxCoord == 3
MaxSize == 3
LongRun == 100

\* n / d as a fixed-point number
R(n, d) == (n * SCALE) \div d

PlayerController(controlled_object) ==
    [pending_events |-> << >>, controlled_object |-> controlled_object,
     key_states |-> [d \in {} |-> "Released"],
     last_touch_velocity |-> vec2(0, 0),
     top_speed |-> R(10, 1), acceleration_speed |-> R(60, 1)]

NoVec == vec2(0, 0)
Movable(pos, size, velocity, mass, friction) ==
    Object("Movable", velocity, mass, NoVec, pos, size, friction, NoTouching)
Static(pos, size, friction) ==
    Object("Static", NoVec, 0, NoVec, pos, size, friction, NoTouching)
Treadmill(pos, size, fake_velocity, friction) ==
    Object("Treadmill", NoVec, 0, fake_velocity, pos, size, friction, NoTouching)

\* GameState::new()
new_objects ==
    [h \in 0..3 |->
        CASE h = 0 -> Movable(vec2(R(-1, 2), R(1, 2)), vec2(R(1, 1), R(1, 1)),
                              vec2(0, 0), 1, FricOne)
          [] h = 1 -> Static(vec2(R(-25, 1), R(-25, 1)), vec2(R(50, 1), R(15, 2)), FricOne)
          [] h = 2 -> Static(vec2(R(35, 2), R(-25, 1)), vec2(R(15, 2), R(50, 1)), FricOne)
          [] h = 3 -> Treadmill(vec2(R(-15, 1), R(-39, 2)), vec2(R(10, 1), R(4, 1)),
                                vec2(R(-4, 1), 0), FricOne \div 2)]

no_update(objs, ctrls) ==
    [dt |-> 0, orders |-> << >>, before |-> objs, controllers_before |-> ctrls,
     controllers |-> ctrls, controlled |-> objs,
     integrated |-> objs, refreshed |-> objs, after |-> objs]

no_call == [pos1 |-> NoVec, size1 |-> NoVec, pos2 |-> NoVec, size2 |-> NoVec,
            called |-> FALSE, result |-> None]

\* main before its event loop: accum = 0.0, last_state = state.clone()
GameState(objs, ctrls) == [objects |-> objs, controllers |-> ctrls]
no_frame == [fresh |-> FALSE, count |-> 0, ran |-> 0, snapshots |-> 0,
             state |-> GameState(<< >>, << >>), last_state |-> GameState(<< >>, << >>)]
MainInit ==
    /\ accum = 0
    /\ last_state = GameState(objects, controllers)
    /\ frame = no_frame

\* the scenes of the bounded family: a controlled Movable (handle 0), a
\* platform (handle 1) that is a Static or a Treadmill of friction 0, 1/2
\* or 1, and a second Movable (handle 2) that no controller controls
Masses == {1, 3}
Frictions == {0, FricOne \div 2, FricOne}
Box == vec2(R(1, 1), R(1, 1))
PlayerStarts ==
    { vec2(R(1, 1), R(1, 1)),      \* standing on the platform
      vec2(R(1, 1), R(-3, 4)),     \* under it, head inside its bottom edge
      vec2(R(-3, 4), R(1, 2)),     \* at its left side, inside its left edge
      vec2(R(1, 1), R(3, 1)) }     \* in the air above it
OtherStarts ==
    { vec2(R(5, 2), R(1, 1)),      \* standing on the platform, clear of handle 0
      vec2(R(3, 2), R(1, 1)),      \* standing on it, overlapping handle 0's first start
      vec2(R(1, 1), R(7, 2)) }     \* in the air, overlapping handle 0's last start
Platforms ==
    { Static(NoVec, vec2(R(4, 1), R(1, 1)), f) : f \in Frictions }
    \cup { Treadmill(NoVec, vec2(R(4, 1), R(1, 1)), vec2(R(-4, 1), 0), f) : f \in Frictions }
Scenes ==
    { [h \in 0..2 |->
          CASE h = 0 -> Movable(p0, Box, NoVec, m0, FricOne)
            [] h = 1 -> plat
            [] h = 2 -> Movable(p2, Box, NoVec, m2, FricOne)] :
      p0 \in PlayerStarts, m0 \in Masses, plat \in Platforms,
      p2 \in OtherStarts, m2 \in Masses }

TypeOK ==
    /\ ticks \in Nat
    /\ panicked \in BOOLEAN
    /\ \A h \in DOMAIN objects : objects[h].ty \in {"Static", "Movable", "Treadmill"}

Init ==
    /\ objects \in Scenes
    /\ controllers = << PlayerController(0) >>
    /\ ticks = 0
    /\ submitted = 0
    /\ last = no_update(objects, controllers)
    /\ panicked = FALSE
    /\ cc = no_call
    /\ MainInit

InitNew ==
    /\ objects = new_objects
    /\ controllers = << PlayerController(0) >>
    /\ ticks = 0
    /\ submitted = 0
    /\ last = no_update(objects, controllers)
    /\ panicked = FALSE
    /\ cc = no_call
    /\ MainInit

Coords == 0..MaxCoord
Sizes == 0..MaxSize
InitCC ==
    /\ objects = << >>
    /\ controllers = << >>
    /\ ticks = 0
    /\ submitted = 0
    /\ last = no_update(objects, controllers)
    /\ panicked = FALSE
    /\ cc \in { [pos1 |-> vec2(x1, y1), size1 |-> vec2(w1, h1),
                 pos2 |-> vec2(x2, y2), size2 |-> vec2(w2, h2),
                 called |-> FALSE, result |-> None] :
                x1 \in Coords, y1 \in Coords, w1 \in Sizes, h1 \in Sizes,
                x2 \in Coords, y2 \in Coords, w2 \in Sizes, h2 \in Sizes }
    /\ MainInit

(***************************************************************************)
(* Actions                                                                 *)
(***************************************************************************)
\* the orders in which a HashMap of these keys may be iterated
iteration_orders(keys) ==
    { o \in [1..Cardinality(keys) -> keys] :
        \A a, b \in 1..Cardinality(keys) : a # b => o[a] # o[b] }

touching_keys(c, objs) ==
    IF c.controlled_object \in DOMAIN objs
    THEN DOMAIN objs[c.controlled_object].touching
    ELSE {}

RECURSIVE order_choices(_, _, _)
order_choices(ctrls, objs, k) ==
    IF k = 0 THEN { << >> }
    ELSE { Append(o, p) : o \in order_choices(ctrls, objs, k - 1),
                          p \in iteration_orders(touching_keys(ctrls[k], objs)) }

\* GameState::update(1/dt)
Tick(dt) ==
    /\ ~panicked
    /\ IF \E k \in 1..Len(controllers) : controller_panics(controllers[k], objects)
       THEN /\ panicked' = TRUE
            /\ UNCHANGED << objects, controllers, ticks, submitted, last, cc, main_vars >>
       ELSE \E orders \in order_choices(controllers, objects, Len(controllers)) :
            \E p \in { update_phases(controllers, objects, dt, orders) } :
                  /\ objects' = p.after
                  /\ controllers' = p.controllers
                  /\ last' = p
                  /\ ticks' = ticks + 1
                  /\ UNCHANGED << submitted, panicked, cc, main_vars >>

Dts == {60}
Update ==
    /\ ticks < MaxTicks
    /\ \E dt \in Dts : Tick(dt)

\* GameState::submit_player_event
submit_player_event(ctrls, event) ==
    [k \in 1..Len(ctrls) |->
        [ctrls[k] EXCEPT !.pending_events = Append(@, event)]]

Events == { Keyboard(b, s) : b \in Directions, s \in ElementStates }
SubmitPlayerEvent ==
    /\ ~panicked
    /\ ticks < MaxTicks
    /\ submitted < MaxEvents
    /\ \E event \in Events :
          controllers' = submit_player_event(controllers, event)
    /\ submitted' = submitted + 1
    /\ UNCHANGED << objects, ticks, last, panicked, cc, main_vars >>

Next == Update \/ SubmitPlayerEvent
Spec == Init /\ [][Next]_vars

\* GameState::new() run at the main loop's TICK_RATE with no input
UpdateAtTickRate ==
    /\ ticks < LongRun
    /\ Tick(60)
NextNew == UpdateAtTickRate
SpecNew == InitNew /\ [][NextNew]_vars

\* one call of check_collision on the boxes drawn by InitCC
CheckCollision ==
    /\ ~cc.called
    /\ cc' = [cc EXCEPT !.called = TRUE,
                        !.result = check_collision(cc.pos1, cc.size1, cc.pos2, cc.size2)]
    /\ UNCHANGED << objects, controllers, ticks, submitted, last, panicked, main_vars >>
NextCC == CheckCollision
SpecCC == InitCC /\ [][NextCC]_vars

(***************************************************************************)
(* check_collision (SpecCC)                                                *)
(***************************************************************************)
\* the boxes of the call overlap on the x axis, on the y axis
OverlapX == cc.pos1.x < cc.pos2.x + cc.size2.x /\ cc.pos1.x + cc.size1.x > cc.pos2.x
OverlapY == cc.pos1.y < cc.pos2.y + cc.size2.y /\ cc.pos1.y + cc.size1.y > cc.pos2.y
\* box 1 moved by the result still overlaps box 2 on the x axis, on the y axis
MovedOverlapX ==
    /\ cc.pos1.x + cc.result[1].x < cc.pos2.x + cc.size2.x
    /\ cc.pos1.x + cc.result[1].x + cc.size1.x > cc.pos2.x
MovedOverlapY ==
    /\ cc.pos1.y + cc.result[1].y < cc.pos2.y + cc.size2.y
    /\ cc.pos1.y + cc.result[1].y + cc.size1.y > cc.pos2.y
\* the centres of the two boxes coincide
SameCentre ==
    /\ 2 * cc.pos1.x + cc.size1.x = 2 * cc.pos2.x + cc.size2.x
    /\ 2 * cc.pos1.y + cc.size1.y = 2 * cc.pos2.y + cc.size2.y
OneNonZero ==
    /\ IsSome(cc.result)
    /\ (cc.result[1].x # 0) # (cc.result[1].y # 0)
    /\ cc.result[1].x # 0 => ~MovedOverlapX
    /\ cc.result[1].y # 0 => ~MovedOverlapY

\* C2 as stated: None for boxes that do not overlap on both axes; for
\* boxes that do, an offset with exactly one non-zero component that
\* separates the boxes on that component's axis.
C2_Original ==
    cc.called =>
        IF OverlapX /\ OverlapY THEN OneNonZero ELSE cc.result = None

\* C2 amended: as C2_Original, except that two overlapping boxes with the
\* same centre get the offset (0, 0).
C2_CheckCollision ==
    cc.called =>
        IF OverlapX /\ OverlapY
        THEN IF SameCentre THEN cc.result = Some(vec2(0, 0)) ELSE OneNonZero
        ELSE cc.result = None

C2_Witness ==
    /\ cc.called /\ OverlapX /\ OverlapY /\ ~SameCentre
    /\ cc.result[1].x # 0 /\ cc.result[1].y = 0

\* the candidate penetration of the claim on one axis
Candidate(p1, s1, p2, s2) ==
    IF 2 * p1 + s1 > 2 * p2 + s2 THEN p2 + s2 - p1
    ELSE IF 2 * p1 + s1 < 2 * p2 + s2 THEN p2 - (p1 + s1)
    ELSE 0
Ox == Candidate(cc.pos1.x, cc.size1.x, cc.pos2.x, cc.size2.x)
Oy == Candidate(cc.pos1.y, cc.size1.y, cc.pos2.y, cc.size2.y)
Magnitude(a) == IF a < 0 THEN -a ELSE a

\* C3: for overlapping boxes the result is (0, oy) if ox = 0, else (0, oy)
\* if |ox| > |oy| and oy # 0, else (ox, 0); so a pair with ox = 0 resolves
\* on y, and of two non-zero candidates of different magnitudes the
\* smaller one is kept.
C3_AxisRule ==
    (cc.called /\ OverlapX /\ OverlapY) =>
        /\ cc.result =
              IF Ox = 0 THEN Some(vec2(0, Oy))
              ELSE IF Magnitude(Ox) > Magnitude(Oy) /\ Oy # 0 THEN Some(vec2(0, Oy))
              ELSE Some(vec2(Ox, 0))
        /\ Ox = 0 => cc.result[1].x = 0 /\ cc.result[1].y = Oy
        /\ (Ox # 0 /\ Oy # 0 /\ Magnitude(Ox) # Magnitude(Oy)) =>
              \/ (Magnitude(Ox) < Magnitude(Oy) /\ cc.result[1] = vec2(Ox, 0))
              \/ (Magnitude(Oy) < Magnitude(Ox) /\ cc.result[1] = vec2(0, Oy))

C3_Witness ==
    /\ cc.called /\ OverlapX /\ OverlapY
    /\ Oy # 0 /\ Magnitude(Ox) > Magnitude(Oy)
    /\ cc.result = Some(vec2(0, Oy))

(***************************************************************************)
(* GameState::new() run with no input (SpecNew)                            *)
(***************************************************************************)
\* the player rests on the first platform: no vertical velocity, its
\* bottom edge on the platform's top edge, the platform touched on Down
PlayerRests ==
    /\ objects[0].velocity.y = 0
    /\ objects[0].pos.y = objects[1].pos.y + objects[1].size.y
    /\ objects[0].pos.y = R(-35, 2)
    /\ 1 \in DOMAIN objects[0].touching
    /\ objects[0].touching[1] = "Down"

\* C8 as stated: after 60 calls of update(1/60) the player rests on the
\* platform of handle 1.
C8_Original == ticks = 60 => PlayerRests

\* C8 amended: the player rests on the platform after 93 calls of
\* update(1/60) and after every larger number of calls; before that it is
\* falling and touches nothing (after 60 calls its bottom edge is at
\* y = -7.125 and its vertical velocity is -15).
C8_EndToEnd ==
    /\ ticks >= 93 => PlayerRests
    /\ ticks < 93 =>
          /\ DOMAIN objects[0].touching = {}
          /\ objects[0].velocity.y = -ticks * R(1, 4)
          /\ objects[0].pos.y > objects[1].pos.y + objects[1].size.y
    /\ ticks = 60 => objects[0].pos.y = R(-57, 8) /\ objects[0].velocity.y = R(-15, 1)

C8_Witness == ticks = 93 /\ PlayerRests

(***************************************************************************)
(* GameState::update and its parts (Spec)                                  *)
(***************************************************************************)
Updated == last.dt # 0
Handles == DOMAIN last.before
Controlled == { last.controllers_before[k].controlled_object :
                    k \in 1..Len(last.controllers_before) }
\* a's box against b's box grown by CHECK_SIZE on every side
NearOverlap(a, b) ==
    /\ FLt(a.pos.x, FAdd(FAdd(b.pos.x, b.size.x), CHECK_SIZE))
    /\ FGt(FAdd(a.pos.x, a.size.x), FSub(b.pos.x, CHECK_SIZE))
    /\ FLt(a.pos.y, FAdd(FAdd(b.pos.y, b.size.y), CHECK_SIZE))
    /\ FGt(FAdd(a.pos.y, a.size.y), FSub(b.pos.y, CHECK_SIZE))

\* C1: update runs (1) the controllers, on the entity state the call
\* found, (2) gravity and then integration by the updated velocity, for
\* the Movables only, (3) the contact refresh, whose candidates are the
\* touching maps the previous tick left, tested on the moved boxes, (4)
\* the resolver, whose contacts are added to the refreshed maps.
C1_PhaseOrder ==
    Updated =>
        /\ \A h \in Handles :
              /\ last.controlled[h].pos = last.before[h].pos
              /\ last.controlled[h].touching = last.before[h].touching
              /\ h \notin Controlled => last.controlled[h] = last.before[h]
        /\ \A k \in 1..Len(last.controllers) :
              last.controllers[k].pending_events = << >>
        /\ \A h \in Handles :
              IF last.controlled[h].ty = "Movable"
              THEN /\ last.integrated[h].velocity =
                         VSub(last.controlled[h].velocity,
                              vec2(0, FDivK(GRAVITY * SCALE, last.dt)))
                   /\ last.integrated[h].pos =
                         VAdd(last.controlled[h].pos,
                              VDivK(last.integrated[h].velocity, last.dt))
              ELSE last.integrated[h] = last.controlled[h]
        /\ \A h \in Handles :
              /\ last.refreshed[h].pos = last.integrated[h].pos
              /\ last.refreshed[h].velocity = last.integrated[h].velocity
              /\ DOMAIN last.refreshed[h].touching \subseteq DOMAIN last.before[h].touching
              /\ \A k \in DOMAIN last.before[h].touching :
                    k \in DOMAIN last.refreshed[h].touching
                        <=> NearOverlap(last.integrated[h], last.integrated[k])
        /\ \A h \in Handles :
              /\ DOMAIN last.refreshed[h].touching \subseteq DOMAIN last.after[h].touching
              /\ \A k \in DOMAIN last.after[h].touching \ DOMAIN last.refreshed[h].touching :
                    /\ "Movable" \in {last.after[h].ty, last.after[k].ty}
                    /\ h \in DOMAIN last.after[k].touching
        /\ objects = last.after

C1_Witness ==
    /\ Updated
    /\ last.controlled # last.before
    /\ last.integrated # last.controlled
    /\ \E h \in Handles : DOMAIN last.refreshed[h].touching # {}
    /\ \E h \in Handles : last.after[h].pos # last.refreshed[h].pos

\* the objects as the resolver comes to the n-th pair of its enumeration
Pairs == tuple_combinations(Handles)
AtPair(n) == resolve(last.refreshed, SubSeq(Pairs, 1, n - 1))
Moved(S, T, h) == VSub(T[h].pos, S[h].pos)

\* C4: when the resolver handles an overlapping pair of Movables of
\* masses 1 and 3, the body of mass 1 moves by 3/4 of the offset and the
\* body of mass 3 by 1/4, entity 1 along the offset and entity 2 against
\* it, whichever of them is entity 1.
C4_LighterMovesMore ==
    Updated =>
        \A n \in 1..Len(Pairs) :
            LET S == AtPair(n)
                i == Pairs[n][1]
                j == Pairs[n][2]
                hit == check_collision(S[i].pos, S[i].size, S[j].pos, S[j].size)
                T == handle_collision(S, i, j)
            IN  (/\ S[i].ty = "Movable" /\ S[j].ty = "Movable"
                 /\ {S[i].mass, S[j].mass} = {1, 3}
                 /\ IsSome(hit)) =>
                    IF S[i].mass = 1
                    THEN /\ VMulK(Moved(S, T, i), 4) = VMulK(hit[1], 3)
                         /\ VMulK(Moved(S, T, j), 4) = VNeg(hit[1])
                    ELSE /\ VMulK(Moved(S, T, i), 4) = hit[1]
                         /\ VMulK(Moved(S, T, j), 4) = VMulK(hit[1], -3)

\* the controller k of the latest update, before and after its update
CtrlBefore(k) == last.controllers_before[k]
CtrlAfter(k) == last.controllers[k]
\* controller k controls a Movable that is there
Controls(k) ==
    /\ CtrlBefore(k).controlled_object \in Handles
    /\ last.before[CtrlBefore(k).controlled_object].ty = "Movable"
Player(k) == last.before[CtrlBefore(k).controlled_object]
PlayerControlled(k) == last.controlled[CtrlBefore(k).controlled_object]
UpPressPending(k) ==
    \E n \in 1..Len(CtrlBefore(k).pending_events) :
        CtrlBefore(k).pending_events[n] = Keyboard("Up", "Pressed")
KeysEqual(k) ==
    key_state(CtrlAfter(k).key_states, "Left") = key_state(CtrlAfter(k).key_states, "Right")
\* v moved towards target by at most step
Towards(v, target, step) ==
    IF target - v > step THEN v + step
    ELSE IF v - target > step THEN v - step
    ELSE target

\* C5: a controller update whose Movable touches an entity g of friction 0
\* and an entity n of friction 1 stores g's velocity in
\* last_touch_velocity, in every iteration order and whatever n's
\* velocity; and it is the target of the horizontal control (seen with
\* the keys equal, no jump and finite numbers).
C5_Glue ==
    Updated =>
        \A k \in 1..Len(last.controllers) : Controls(k) =>
            \A g, n \in DOMAIN Player(k).touching :
                (/\ last.before[g].surface_friction = 0
                 /\ last.before[n].surface_friction = FricOne) =>
                    /\ CtrlAfter(k).last_touch_velocity = get_velocity(last.before[g])
                    /\ (/\ KeysEqual(k) /\ ~UpPressPending(k)
                        /\ IsFinite(Player(k).velocity.x)
                        /\ IsFinite(get_velocity(last.before[g]).x)) =>
                            PlayerControlled(k).velocity.x =
                                Towards(Player(k).velocity.x,
                                        get_velocity(last.before[g]).x,
                                        CtrlBefore(k).acceleration_speed \div last.dt)

\* the friction-1 entity is iterated first, and the two velocities differ
C5_Witness ==
    /\ Updated /\ Controls(1)
    /\ \E g, n \in DOMAIN Player(1).touching :
          /\ last.before[g].surface_friction = 0
          /\ last.before[n].surface_friction = FricOne
          /\ last.orders[1] = << n, g >>
          /\ get_velocity(last.before[g]) = vec2(R(-4, 1), 0)
          /\ get_velocity(last.before[n]) # get_velocity(last.before[g])
          /\ CtrlAfter(1).last_touch_velocity = vec2(R(-4, 1), 0)
          /\ KeysEqual(1) /\ ~UpPressPending(1)
          /\ PlayerControlled(1).velocity.x = -R(1, 1)

\* the Movable of controller k touches exactly one entity, a Static, on
\* side d, the keys are equal and velocity.x is the Static's (0)
OnOneStatic(k, d) ==
    \E s \in Handles :
        /\ DOMAIN Player(k).touching = {s}
        /\ Player(k).touching[s] = d
        /\ last.before[s].ty = "Static"
        /\ KeysEqual(k)
        /\ Player(k).velocity.x = 0
Added(k) == VSub(PlayerControlled(k).velocity, Player(k).velocity)

\* C6 as stated: with an Up press pending, a controller update leaves
\* velocity.y alone if the touching map is empty, and adds exactly (0,10)
\* if the Movable touches one Static on its Down or Up side.
C6_Original ==
    Updated =>
        \A k \in 1..Len(last.controllers) : (Controls(k) /\ UpPressPending(k)) =>
            /\ DOMAIN Player(k).touching = {} =>
                  PlayerControlled(k).velocity.y = Player(k).velocity.y
            /\ (OnOneStatic(k, "Down") \/ OnOneStatic(k, "Up")) =>
                  Added(k) = vec2(0, R(JUMP, 1))

\* C6 amended: as C6_Original, except that on a Down contact the update
\* adds (0, 10 + 15*dt): the jump and the push of lines 107-109.
C6_JumpGating ==
    Updated =>
        \A k \in 1..Len(last.controllers) : (Controls(k) /\ UpPressPending(k)) =>
            /\ DOMAIN Player(k).touching = {} =>
                  PlayerControlled(k).velocity.y = Player(k).velocity.y
            /\ OnOneStatic(k, "Up") => Added(k) = vec2(0, R(JUMP, 1))
            /\ OnOneStatic(k, "Down") =>
                  Added(k) = vec2(0, R(JUMP, 1) + R(GRAVITY, last.dt))

C6_Witness ==
    /\ Updated /\ Controls(1) /\ UpPressPending(1)
    /\ OnOneStatic(1, "Down")
    /\ Added(1) = vec2(0, R(JUMP, 1) + R(GRAVITY, last.dt))

\* the touching maps of a world, by handle
Touching(S) == [h \in DOMAIN S |-> S[h].touching]
Refresh(S) == check_whats_still_touching(S)

\* C7: the contact refresh is idempotent: on the world of every reachable
\* state, on the integrated world the latest update ran it on, and on the
\* world it left, a second run without a change of position or size
\* leaves every touching map as the first run left it.
C7_RefreshIdempotent ==
    \A S \in {objects, last.integrated, last.refreshed, last.after} :
        /\ Touching(Refresh(Refresh(S))) = Touching(Refresh(S))
        /\ Refresh(Refresh(S)) = Refresh(S)

\* the refresh of the latest update dropped a contact of one entity and
\* kept a contact of another, and the second run agrees with it
C7_Witness ==
    /\ Updated
    /\ last.refreshed = Refresh(last.integrated)
    /\ \E h \in Handles :
          DOMAIN last.refreshed[h].touching # DOMAIN last.integrated[h].touching
    /\ \E h \in Handles : DOMAIN last.refreshed[h].touching # {}
    /\ Touching(Refresh(last.refreshed)) = Touching(last.refreshed)

\* in world S, Movable m has its bottom edge exactly on the top edge of
\* Static s, overlaps it horizontally, and its only contact is s, Down
RestingOn(S, m, s) ==
    /\ S[m].ty = "Movable" /\ S[s].ty = "Static"
    /\ IsFinite(S[m].pos.x) /\ IsFinite(S[m].pos.y)
    /\ S[m].pos.y = S[s].pos.y + S[s].size.y
    /\ S[m].pos.x < S[s].pos.x + S[s].size.x
    /\ S[s].pos.x < S[m].pos.x + S[m].size.x
    /\ DOMAIN S[m].touching = {s}
    /\ S[m].touching[s] = "Down"
\* no event is pending and no key is held
NoInput(ctrls) ==
    \A k \in 1..Len(ctrls) :
        /\ ctrls[k].pending_events = << >>
        /\ \A d \in DOMAIN ctrls[k].key_states : ctrls[k].key_states[d] = "Released"
\* no entity but s is in contact with m, before or after the update
Alone(m, s) ==
    /\ DOMAIN last.after[m].touching \subseteq {s}
    /\ \A h \in Handles \ {m, s} :
          /\ m \notin DOMAIN last.before[h].touching
          /\ m \notin DOMAIN last.after[h].touching
StillResting(m, s) ==
    /\ s \in DOMAIN last.after[m].touching
    /\ last.after[m].touching[s] = "Down"
    /\ last.after[m].pos.y = last.before[m].pos.y

\* C9: a Movable, controlled or not, that rests on a Static with a
\* recorded Down contact, with no input and no other entity in contact,
\* still holds that contact with direction Down and has the same vertical
\* position at the end of the update.
C9_RestingContact ==
    Updated =>
        \A m, s \in Handles :
            (/\ RestingOn(last.before, m, s)
             /\ NoInput(last.controllers_before)
             /\ Alone(m, s)) => StillResting(m, s)

\* the same on a Static and a Movable of friction above 0
C9_PositiveFriction ==
    Updated =>
        \A m, s \in Handles :
            (/\ RestingOn(last.before, m, s)
             /\ last.before[s].surface_friction > 0
             /\ last.before[m].surface_friction > 0
             /\ NoInput(last.controllers_before)
             /\ Alone(m, s)) => StillResting(m, s)

\* the claim's case for the controlled and for an uncontrolled Movable
C9_Witness ==
    /\ Updated
    /\ NoInput(last.controllers_before)
    /\ \E m, s \in Handles :
          /\ m \in Controlled
          /\ RestingOn(last.before, m, s) /\ Alone(m, s) /\ StillResting(m, s)
    /\ \E m, s \in Handles :
          /\ m \notin Controlled
          /\ RestingOn(last.before, m, s) /\ Alone(m, s) /\ StillResting(m, s)

Fixed(h) == objects[h].ty \in {"Static", "Treadmill"}
Shape(o) == [pos |-> o.pos, size |-> o.size, ty |-> o.ty,
             fake_velocity |-> o.fake_velocity, velocity |-> o.velocity]

\* C10: no step changes the position, size, kind, fake_velocity or (zero)
\* velocity of a Static or a Treadmill, and none removes one.
C10_StaticsStay ==
    [][\A h \in DOMAIN objects :
          Fixed(h) => /\ h \in DOMAIN objects'
                      /\ Shape(objects'[h]) = Shape(objects[h])]_vars

\* the latest update resolved a collision that involved the platform: it
\* moved a Movable and recorded a contact in the platform's map
C10_Witness ==
    /\ Updated
    /\ \E h \in Handles :
          /\ Fixed(h)
          /\ DOMAIN last.after[h].touching # DOMAIN last.refreshed[h].touching
          /\ Shape(last.after[h]) = Shape(last.before[h])
          /\ \E m \in DOMAIN last.after[h].touching :
                /\ last.after[m].ty = "Movable"
                /\ last.after[m].pos # last.refreshed[m].pos

(***************************************************************************)
(* Entities removed from the public objects collection (SpecRemove)        *)
(***************************************************************************)
\* StableVec::remove on GameState.objects (a pub field), between two ticks
remove(objs, h) == [k \in DOMAIN objs \ {h} |-> objs[k]]
Remove ==
    /\ ~panicked
    /\ 0 < ticks /\ ticks < MaxTicks
    /\ DOMAIN objects = DOMAIN last.after
    /\ \E h \in DOMAIN objects : objects' = remove(objects, h)
    /\ UNCHANGED << controllers, ticks, submitted, last, panicked, cc, main_vars >>
NextRemove == Update \/ Remove
SpecRemove == Init /\ [][NextRemove]_vars

\* C11: after an entity was removed while its handle is still a key of a
\* touching map or a controller's controlled_object, the next update
\* completes without a fault.
C11_StaleHandleSkipped == ~panicked

\* the lookups that do go through get(): an update that ran with handles
\* missing (a removed controlled_object, stale keys in the maps of
\* entities no controller controls) completed, drained the events, and
\* left no absent handle in any touching map
C11_GetLookupsSkip ==
    (Updated /\ DOMAIN last.before # 0..2) =>
        /\ DOMAIN objects = DOMAIN last.before
        /\ \A k \in 1..Len(controllers) : controllers[k].pending_events = << >>
        /\ \A h \in DOMAIN objects : DOMAIN objects[h].touching \subseteq DOMAIN objects

(***************************************************************************)
(* The resolver and the contact refresh within a tick (Spec)               *)
(***************************************************************************)
\* the resolver found the pair {h, k} overlapping when it came to it
ResolverInserted(h, k) ==
    \E n \in 1..Len(Pairs) :
        /\ {Pairs[n][1], Pairs[n][2]} = {h, k}
        /\ "Movable" \in {AtPair(n)[h].ty, AtPair(n)[k].ty}
        /\ IsSome(check_collision(AtPair(n)[Pairs[n][1]].pos, AtPair(n)[Pairs[n][1]].size,
                                  AtPair(n)[Pairs[n][2]].pos, AtPair(n)[Pairs[n][2]].size))

\* C12 as stated: the resolver runs on the integrated world and the
\* contact refresh after it, so that the touching maps at the end of the
\* update are exactly the refresh's output.
C12_Original ==
    Updated =>
        /\ last.after = Refresh(collision_detection(last.integrated))
        /\ Touching(objects) = Touching(last.refreshed)

\* C12 amended: the contact refresh runs on the integrated world and the
\* resolver after it, so that the touching maps at the end of the update
\* are the refresh's output plus the contacts the resolver inserted: every
\* key the refresh kept is still there, and every other key is a pair the
\* resolver found overlapping.
C12_ResolverAfterRefresh ==
    Updated =>
        /\ last.refreshed = Refresh(last.integrated)
        /\ objects = collision_detection(last.refreshed)
        /\ \A h \in Handles :
              /\ DOMAIN last.refreshed[h].touching \subseteq DOMAIN objects[h].touching
              /\ \A k \in DOMAIN objects[h].touching :
                    \/ /\ k \in DOMAIN last.refreshed[h].touching
                       /\ objects[h].touching[k] = last.refreshed[h].touching[k]
                    \/ ResolverInserted(h, k)

\* the update ends with a contact that the refresh did not output
C12_Witness ==
    /\ Updated
    /\ \E h \in Handles : \E k \in DOMAIN objects[h].touching :
          /\ k \notin DOMAIN last.refreshed[h].touching
          /\ ResolverInserted(h, k)
    /\ Touching(objects) # Touching(last.refreshed)

(***************************************************************************)
(* The resolver's relative-velocity correction (Spec)                      *)
(***************************************************************************)
\* the n-th pair of the resolver's enumeration as it finds it: the offset
\* of check_collision, the two objects after reset_velocity_components,
\* the product of their frictions and the correction computed from them
Hit(n) ==
    check_collision(AtPair(n)[Pairs[n][1]].pos, AtPair(n)[Pairs[n][1]].size,
                    AtPair(n)[Pairs[n][2]].pos, AtPair(n)[Pairs[n][2]].size)
Collides(n) ==
    /\ "Movable" \in {AtPair(n)[Pairs[n][1]].ty, AtPair(n)[Pairs[n][2]].ty}
    /\ IsSome(Hit(n))
Reset1(n) ==
    reset_velocity_components(AtPair(n)[Pairs[n][1]],
                              Hit(n)[1].x # 0, Hit(n)[1].y # 0)
Reset2(n) ==
    reset_velocity_components(AtPair(n)[Pairs[n][2]],
                              Hit(n)[1].x # 0, Hit(n)[1].y # 0)
Total(n) == Reset1(n).surface_friction * Reset2(n).surface_friction
Correction(n) == velocity_offset(Reset1(n), Reset2(n), Hit(n)[1])
RelativeVelocity(n) == VSub(get_velocity(Reset1(n)), get_velocity(Reset2(n)))
\* c is the f64 quotient of diff by the friction product total
IsQuotient(c, diff, total) ==
    IF IsNaN(diff) THEN IsNaN(c)
    ELSE IF total = 0
    THEN c = (IF diff = 0 THEN NaN ELSE IF diff > 0 THEN PosInf ELSE NegInf)
    ELSE IF IsInf(diff) THEN c = diff
    ELSE c * total = diff * FricOne * FricOne

\* C13 as stated: the correction is (v1 - v2) / (friction1 * friction2) on
\* the resolved axis, the axis of the offset's non-zero component, and 0
\* on the other axis.
C13_Original ==
    Updated =>
        \A n \in 1..Len(Pairs) : Collides(n) =>
            /\ Hit(n)[1].x # 0 =>
                  /\ IsQuotient(Correction(n).x, RelativeVelocity(n).x, Total(n))
                  /\ Correction(n).y = 0
            /\ Hit(n)[1].y # 0 =>
                  /\ IsQuotient(Correction(n).y, RelativeVelocity(n).y, Total(n))
                  /\ Correction(n).x = 0

\* C13 amended: the correction is (v1 - v2) / (friction1 * friction2) on
\* the axis across the resolved one, the axis on which the offset is 0 (x
\* for the zero offset of two boxes with the same centre), and 0 on the
\* resolved axis; it is what apply_push adds to a Movable pushed against
\* a Static or a Treadmill.
C13_CorrectionAcross ==
    Updated =>
        \A n \in 1..Len(Pairs) : Collides(n) =>
            /\ Hit(n)[1].x = 0 =>
                  /\ IsQuotient(Correction(n).x, RelativeVelocity(n).x, Total(n))
                  /\ Correction(n).y = 0
            /\ Hit(n)[1].x # 0 =>
                  /\ Hit(n)[1].y = 0
                  /\ IsQuotient(Correction(n).y, RelativeVelocity(n).y, Total(n))
                  /\ Correction(n).x = 0
            /\ LET T == handle_collision(AtPair(n), Pairs[n][1], Pairs[n][2])
               IN  /\ Reset2(n).ty # "Movable" =>
                         T[Pairs[n][1]].velocity =
                             VAdd(Reset1(n).velocity, VNeg(Correction(n)))
                   /\ Reset1(n).ty # "Movable" =>
                         T[Pairs[n][2]].velocity =
                             VAdd(Reset2(n).velocity, Correction(n))

\* a pair resolved on y whose velocities differ on x: the correction is
\* finite and not 0 on x
C13_Witness ==
    /\ Updated
    /\ \E n \in 1..Len(Pairs) :
          /\ Collides(n)
          /\ Hit(n)[1].x = 0 /\ Hit(n)[1].y # 0
          /\ Total(n) > 0 /\ Total(n) < FricOne * FricOne
          /\ IsFinite(RelativeVelocity(n).x) /\ RelativeVelocity(n).x # 0
          /\ Correction(n) = vec2((RelativeVelocity(n).x * FricOne * FricOne) \div Total(n), 0)

(***************************************************************************)
(* Jump intent (Spec)                                                      *)
(***************************************************************************)
TouchingSides(k) == { Player(k).touching[h] : h \in DOMAIN Player(k).touching }
UpHeld(k) == key_state(CtrlBefore(k).key_states, "Up") = "Pressed"

\* C14: every controller update drains the pending events, and one with
\* no Up press among them adds no jump velocity: velocity.y changes by
\* the grounded increment only and velocity.x by the horizontal control
\* only, also when Up is still held from an earlier tick and the entity
\* touches something.
C14_JumpIntentOneTick ==
    Updated =>
        \A k \in 1..Len(last.controllers) :
            /\ CtrlAfter(k).pending_events = << >>
            /\ (Controls(k) /\ ~UpPressPending(k)) =>
                  /\ PlayerControlled(k).velocity.y =
                        FAdd(Player(k).velocity.y,
                             IF "Down" \in TouchingSides(k)
                             THEN (GRAVITY * SCALE) \div last.dt ELSE 0)
                  /\ PlayerControlled(k).velocity.x =
                        horizontal(CtrlBefore(k), CtrlAfter(k).key_states,
                                   Player(k).velocity.x,
                                   CtrlAfter(k).last_touch_velocity, last.dt)

\* the second update: the Up press was drained in the first, where the
\* entity touched nothing; Up is still held, the entity now stands on
\* something, and no jump velocity is added
C14_Witness ==
    /\ Updated /\ ticks = 2 /\ submitted = 1
    /\ Controls(1) /\ UpHeld(1) /\ ~UpPressPending(1)
    /\ CtrlBefore(1).pending_events = << >>
    /\ "Down" \in TouchingSides(1)
    /\ IsFinite(Player(1).velocity.y)
    /\ Added(1).y = (GRAVITY * SCALE) \div last.dt

(***************************************************************************)
(* The event loop of main (SpecMain)                                       *)
(***************************************************************************)
TICK_RATE == 60
AccumParts == 2
MaxElapsed == 5
MaxFrames == 3

\* state.update(TICK_RATE) on a GameState, the maps iterated in `orders`
update_state(st, orders) ==
    Bind(update_phases(st.controllers, st.objects, TICK_RATE, orders), LAMBDA p :
        [state |-> GameState(p.after, p.controllers), phases |-> p])

takes_snapshot_mut(acc) == TRUE

\* the test of line 74, on accum after accum -= TICK_RATE
takes_snapshot(acc) == acc < AccumParts

\* the while loop of lines 72-80 from the loop state r: the loop states it
\* may end in (one for each iteration order of the updates it runs)
RECURSIVE catch_up(_)
catch_up(r) ==
    IF r.accum >= AccumParts /\ ~r.panicked
    THEN LET acc == r.accum - AccumParts
             snap == takes_snapshot(acc)
             st == r.state
         IN  IF \E k \in 1..Len(st.controllers) :
                    controller_panics(st.controllers[k], st.objects)
             THEN { [r EXCEPT !.accum = acc, !.panicked = TRUE,
                              !.last_state = IF snap THEN st ELSE @,
                              !.snapshots = IF snap THEN @ + 1 ELSE @] }
             ELSE UNION {
                    catch_up([r EXCEPT !.accum = acc,
                                       !.last_state = IF snap THEN st ELSE @,
                                       !.snapshots = IF snap THEN @ + 1 ELSE @,
                                       !.state = update_state(st, orders).state,
                                       !.phases = update_state(st, orders).phases,
                                       !.ran = @ + 1]) :
                    orders \in order_choices(st.controllers, st.objects,
                                             Len(st.controllers)) }
    ELSE { r }

\* Event::MainEventsCleared: accum += the time since the last frame, then
\* the catch-up loop (the render that follows reads and changes nothing
\* of this state)
Elapsed == 0..MaxElapsed
MainEventsCleared ==
    /\ ~panicked
    /\ frame.count < MaxFrames
    /\ \E elapsed \in Elapsed :
       \E r \in catch_up([accum |-> accum + elapsed, panicked |-> FALSE,
                          state |-> GameState(objects, controllers),
                          last_state |-> last_state, phases |-> last,
                          ran |-> 0, snapshots |-> 0]) :
          /\ objects' = r.state.objects
          /\ controllers' = r.state.controllers
          /\ last_state' = r.last_state
          /\ accum' = r.accum
          /\ last' = r.phases
          /\ ticks' = ticks + r.ran
          /\ panicked' = r.panicked
          /\ frame' = [fresh |-> TRUE, count |-> frame.count + 1, ran |-> r.ran,
                       snapshots |-> r.snapshots,
                       state |-> GameState(objects, controllers),
                       last_state |-> last_state]
    /\ UNCHANGED << submitted, cc >>

\* WindowEvent::KeyboardInput with one of the four mapped scancodes
KeyboardInput ==
    /\ ~panicked
    /\ frame.count < MaxFrames
    /\ submitted < MaxEvents
    /\ \E event \in Events :
          controllers' = submit_player_event(controllers, event)
    /\ submitted' = submitted + 1
    /\ frame' = [frame EXCEPT !.fresh = FALSE]
    /\ UNCHANGED << objects, ticks, last, panicked, cc, accum, last_state >>

NextMain == MainEventsCleared \/ KeyboardInput
SpecMain == InitNew /\ [][NextMain]_vars

\* C15: right after a catch-up loop that ran at least one tick, the
\* snapshot was taken exactly once, state is one update(TICK_RATE) of
\* last_state, and accum is less than one tick; right after a loop that
\* ran no tick, state and last_state are as they were.
C15_SnapshotBeforeFinalTick ==
    frame.fresh =>
        /\ accum < AccumParts
        /\ frame.ran >= 1 =>
              /\ frame.snapshots = 1
              /\ \E orders \in order_choices(last_state.controllers, last_state.objects,
                                             Len(last_state.controllers)) :
                    update_state(last_state, orders).state
                        = GameState(objects, controllers)
        /\ frame.ran = 0 =>
              /\ frame.snapshots = 0
              /\ GameState(objects, controllers) = frame.state
              /\ last_state = frame.last_state

\* a loop that ran more than one tick: the snapshot is neither the state
\* the loop began with nor the snapshot it found
C15_Witness ==
    /\ frame.fresh /\ frame.ran >= 2 /\ frame.snapshots = 1
    /\ last_state # frame.state
    /\ last_state # frame.last_state
    /\ last_state # GameState(objects, controllers)
    /\ accum = 1

(***************************************************************************)
(* Contact symmetry                                                        *)
(***************************************************************************)
\* in world S every contact is recorded on both sides, with inverse
\* directions, and no entity touches itself
Symmetric(S) ==
    \A a \in DOMAIN S :
        /\ a \notin DOMAIN S[a].touching
        /\ \A b \in DOMAIN S[a].touching :
              /\ b \in DOMAIN S
              /\ a \in DOMAIN S[b].touching
              /\ S[b].touching[a] = invert(S[a].touching[b])

\* C16: at the end of every update, A's touching map has B with direction
\* d if and only if B's map has A with invert(d), and no map has its own
\* handle as a key.
C16_ContactSymmetry == Symmetric(objects)

\* the update kept a contact in the refresh that the resolver did not
\* insert again
C16_Witness ==
    /\ Updated
    /\ \E a \in Handles : \E b \in DOMAIN objects[a].touching :
          /\ b \in DOMAIN last.refreshed[a].touching
          /\ ~ResolverInserted(a, b)
          /\ objects[b].touching[a] = invert(objects[a].touching[b])

====
